---- MODULE Spec2Model ----
(***************************************************************************)
(* Model of the store listing endpoint of sedifex-stores                   *)
(* (src/src/app/api/stores/route.ts, second module of the file, lines      *)
(* 54-227): the in-process geocode cache, geocodeAddress and the GET       *)
(* handler that resolves, writes back and returns every store record.      *)
(*                                                                         *)
(* An action is one run of a handler between two suspension points         *)
(* (await): the synchronous code from the resumption of one await to the   *)
(* issue of the next.  Up to MaxInFlight GET invocations are in flight in   *)
(* the same process and interleave at these points.                        *)
(*                                                                         *)
(* Strings are tuples of one-character strings.  Numbers are integers;     *)
(* the alphabet of the modelled strings has no decimal point or exponent,  *)
(* so that parseFloat yields integers.                                     *)
(***************************************************************************)
EXTENDS Integers, Sequences, FiniteSets, TLC

\* ------------------------------------------------------------------ bounds
NumRecords == 2      \* documents in the 'stores' collection
MaxInFlight == 1     \* GET invocations that may be in flight together
MaxRequests == 2     \* GET invocations over the whole behaviour
MaxRestarts == 1     \* process restarts over the whole behaviour

\* the places an invocation runs in; an answered invocation stays in its
\* slot until the next invocation takes the slot
Slots == 1..MaxInFlight

\* --------------------------------------------------------------- JS values
Undefined == [t |-> "undefined", n |-> 0, s |-> <<>>]
Null == [t |-> "null", n |-> 0, s |-> <<>>]
NaN == [t |-> "NaN", n |-> 0, s |-> <<>>]
Infinity == [t |-> "Infinity", n |-> 0, s |-> <<>>]
NegInfinity == [t |-> "-Infinity", n |-> 0, s |-> <<>>]
ServerTimestamp == [t |-> "timestamp", n |-> 0, s |-> <<>>]
Num(n) == [t |-> "number", n |-> n, s |-> <<>>]
Str(s) == [t |-> "string", n |-> 0, s |-> s]

\* Number.isFinite(value): a number that is neither NaN nor an infinity
IsFinite(v) == v.t = "number"

IsWhitespace(c) == c = " "
IsDigit(c) == c \in {"0", "1", "2", "3", "4", "5", "6", "7", "8", "9"}
DigitValue(c) ==
  CASE c = "0" -> 0 [] c = "1" -> 1 [] c = "2" -> 2 [] c = "3" -> 3
    [] c = "4" -> 4 [] c = "5" -> 5 [] c = "6" -> 6 [] c = "7" -> 7
    [] c = "8" -> 8 [] c = "9" -> 9

RECURSIVE TrimStart(_)
TrimStart(s) ==
  IF s # <<>> /\ IsWhitespace(Head(s)) THEN TrimStart(Tail(s)) ELSE s

RECURSIVE TrimEnd(_)
TrimEnd(s) ==
  IF s # <<>> /\ IsWhitespace(s[Len(s)])
  THEN TrimEnd(SubSeq(s, 1, Len(s) - 1)) ELSE s

\* String.prototype.trim
Trim(s) == TrimEnd(TrimStart(s))

RECURSIVE DigitPrefix(_)
DigitPrefix(s) ==
  IF s # <<>> /\ IsDigit(Head(s)) THEN <<Head(s)>> \o DigitPrefix(Tail(s))
  ELSE <<>>

RECURSIVE DecimalValue(_)
DecimalValue(d) ==
  IF d = <<>> THEN 0
  ELSE 10 * DecimalValue(SubSeq(d, 1, Len(d) - 1)) + DigitValue(d[Len(d)])

InfinityLiteral == <<"I", "n", "f", "i", "n", "i", "t", "y">>

StartsWith(s, p) == Len(s) >= Len(p) /\ SubSeq(s, 1, Len(p)) = p

\* Number.parseFloat on a string without decimal point or exponent:
\* leading whitespace is skipped, an optional sign is read, then the
\* longest digit prefix; anything after it is ignored.
parseFloat(s) ==
  LET t == TrimStart(s)
      signed == t # <<>> /\ Head(t) \in {"-", "+"}
      neg == t # <<>> /\ Head(t) = "-"
      body == IF signed THEN Tail(t) ELSE t
      digits == DigitPrefix(body)
  IN  IF StartsWith(body, InfinityLiteral)
      THEN (IF neg THEN NegInfinity ELSE Infinity)
      ELSE IF digits = <<>> THEN NaN
      ELSE Num(IF neg THEN 0 - DecimalValue(digits) ELSE DecimalValue(digits))

toNumber(value) ==
  IF value.t = "number" /\ IsFinite(value) THEN value
  ELSE IF value.t = "string" /\ IsFinite(parseFloat(value.s))
       THEN parseFloat(value.s)
  ELSE Null

\* toNullableString that answers the value as it was written
toNullableStringUntrimmed(value) ==
  IF value.t = "string" /\ Trim(value.s) # <<>> THEN value
  ELSE Null

toNullableString(value) ==
  IF value.t = "string" /\ Trim(value.s) # <<>> THEN Str(Trim(value.s))
  ELSE Null

\* Array.prototype.filter(Boolean) on the results of toNullableString:
\* null and the empty string are dropped
RECURSIVE FilterBoolean(_)
FilterBoolean(parts) ==
  IF parts = <<>> THEN <<>>
  ELSE IF Head(parts).t = "string" /\ Head(parts).s # <<>>
       THEN <<Head(parts)>> \o FilterBoolean(Tail(parts))
       ELSE FilterBoolean(Tail(parts))

\* Array.prototype.join(', ')
RECURSIVE Join(_)
Join(parts) ==
  IF parts = <<>> THEN <<>>
  ELSE IF Len(parts) = 1 THEN Head(parts).s
  ELSE Head(parts).s \o <<",", " ">> \o Join(Tail(parts))

\* the address built at the top of the loop body of GET
AddressOf(rawData) ==
  Join(FilterBoolean(<<toNullableString(rawData.addressLine1),
                       toNullableString(rawData.city),
                       toNullableString(rawData.region),
                       toNullableString(rawData.country)>>))

\* ------------------------------------------------------- the store records
Doc(l1, city, region, country, lat, lon) ==
  [addressLine1 |-> l1, city |-> city, region |-> region, country |-> country,
   latitude |-> lat, longitude |-> lon, geocodedAt |-> Undefined]

\* The documents a 'stores' collection is drawn from: two spellings of the
\* same address without coordinates, a located record, a record without any
\* address, a record with one coordinate only, a record whose coordinates
\* are stored as strings.
Catalogue ==
  << Doc(Str(<<" ", "a">>), Str(<<"c">>), Str(<<" ">>), Undefined,
         Undefined, Undefined),
     Doc(Str(<<"a">>), Str(<<"c", " ">>), Undefined, Str(<<>>),
         Undefined, Null),
     Doc(Undefined, Str(<<"b">>), Undefined, Undefined,
         Num(1), Num(2)),
     Doc(Str(<<" ", " ">>), Str(<<>>), Undefined, Null,
         Undefined, Undefined),
     Doc(Undefined, Str(<<"b">>), Undefined, Undefined,
         Num(1), Str(<<"x">>)),
     Doc(Str(<<"d">>), Undefined, Undefined, Undefined,
         Str(<<"3">>), Str(<<" ", "-", "4">>)) >>

\* collections: NumRecords successive documents of the catalogue, which is
\* read as a ring
Collections ==
  { [i \in 1..NumRecords |-> ((first + i - 2) % Len(Catalogue)) + 1] :
      first \in 1..Len(Catalogue) }

Addresses == { AddressOf(Catalogue[k]) : k \in 1..Len(Catalogue) } \ { <<>> }

\* ------------------------------------------- the external geocoding service
Candidate(lat, lon) == [lat |-> lat, lon |-> lon]

\* what one request to the service may produce: a thrown network error, a
\* non-OK response, or an OK response with a (possibly empty) JSON array
Responses ==
  { [kind |-> "throw", ok |-> FALSE, results |-> <<>>],
    [kind |-> "http", ok |-> FALSE, results |-> <<>>],
    [kind |-> "http", ok |-> TRUE, results |-> <<>>],
    [kind |-> "http", ok |-> TRUE,
     results |-> <<Candidate(Str(<<" ", "5">>), Str(<<"-", "7", "x">>)),
                   Candidate(Str(<<"1">>), Str(<<"2">>))>>],
    [kind |-> "http", ok |-> TRUE,
     results |-> <<Candidate(Undefined, Str(<<"7">>))>>],
    [kind |-> "http", ok |-> TRUE,
     results |-> <<Candidate(Str(<<"5">>), Str(<<>>))>>],
    [kind |-> "http", ok |-> TRUE,
     results |-> <<Candidate(Str(<<"x">>), Str(<<"7">>))>>],
    [kind |-> "http", ok |-> TRUE,
     results |-> <<Candidate(Str(<<"5">>), Str(InfinityLiteral))>>] }

\* a JS string is truthy iff it is non-empty; undefined is falsy
Truthy(v) == v.t = "string" /\ v.s # <<>>

Coordinates(latitude, longitude) ==
  [latitude |-> latitude, longitude |-> longitude]

NoCoordinates == Coordinates(Null, Null)

\* Geocoded with latitude and longitude read from the other field
GeocodedSwapped(response) ==
  IF response.kind = "throw" THEN NoCoordinates
  ELSE IF ~response.ok THEN NoCoordinates
  ELSE IF response.results = <<>> THEN NoCoordinates
  ELSE LET first == response.results[1]
       IN  IF ~Truthy(first.lat) \/ ~Truthy(first.lon) THEN NoCoordinates
           ELSE LET latitude == parseFloat(first.lon.s)
                    longitude == parseFloat(first.lat.s)
                IN  IF ~IsFinite(latitude) \/ ~IsFinite(longitude)
                    THEN NoCoordinates
                    ELSE Coordinates(latitude, longitude)

\* what geocodeAddress computes from the response after its cache miss:
\* the coordinates, or NoCoordinates for its `return null`
Geocoded(response) ==
  IF response.kind = "throw" THEN NoCoordinates
  ELSE IF ~response.ok THEN NoCoordinates
  ELSE IF response.results = <<>> THEN NoCoordinates
  ELSE LET first == response.results[1]
       IN  IF ~Truthy(first.lat) \/ ~Truthy(first.lon) THEN NoCoordinates
           ELSE LET latitude == parseFloat(first.lat.s)
                    longitude == parseFloat(first.lon.s)
                IN  IF ~IsFinite(latitude) \/ ~IsFinite(longitude)
                    THEN NoCoordinates
                    ELSE Coordinates(latitude, longitude)

\* ------------------------------------------------------------------- state
VARIABLES
  db,             \* the 'stores' collection: document id -> document data
  geocodeCache,   \* the module-level Map: address -> coordinates
  req,            \* per slot: the GET invocation running in it
  log,            \* per slot: what the invocation did for each record (history)
  lookups,        \* per address: requests sent to the service, this process
  lookupsEver,    \* per address: requests sent to the service, ever
  started,        \* GET invocations so far
  restarts        \* process restarts so far

serverVars ==
  <<db, geocodeCache, req, log, lookups, lookupsEver, started, restarts>>

\* The page that shows the listing (src/src/app/StoresPage.tsx).  Its
\* functions are pure; a call is modelled by its arguments and its result,
\* the forEach loop of clusterPins by its position in the array of pins.
VARIABLES
  args,           \* the arguments of the call of a pure function
  result,         \* what the call returned
  pins,           \* clusterPins: its parameter
  clusters,       \* clusterPins: its local array of clusters
  cursor          \* clusterPins: the index of the pin forEach visits next

pageVars == <<args, result, pins, clusters, cursor>>

vars == <<serverVars, pageVars>>

\* a JS value that stands for "no call made"
NoCall == Undefined

\* the page is not modelled: nothing is called
PageIdle ==
  /\ args = NoCall
  /\ result = NoCall
  /\ pins = <<>>
  /\ clusters = <<>>
  /\ cursor = 0

EmptyMap == [a \in {} |-> NoCoordinates]

MapSet(map, key, value) ==
  [a \in DOMAIN map \cup {key} |-> IF a = key THEN value ELSE map[a]]

\* a slot in which no invocation runs
Idle ==
  [pc |-> "idle", snapshot |-> <<>>, i |-> 0, address |-> <<>>,
   latitude |-> Null, longitude |-> Null, geocoded |-> NoCoordinates,
   stores |-> <<>>, status |-> 0]

\* the history entry of the record an invocation starts to process
LogEntry(id, address) ==
  [id |-> id, address |-> address, hit |-> FALSE, fetches |-> 0,
   fetchFailed |-> FALSE, geocoded |-> NoCoordinates, writes |-> 0,
   writeFailed |-> FALSE, written |-> FALSE]

\* one element of the stores array of the payload (the spread rawData fields
\* other than the coordinates are the snapshot's and are not repeated here)
StorePayload(id, latitude, longitude) ==
  [id |-> id, latitude |-> latitude, longitude |-> longitude]

Init ==
  /\ db \in { [i \in 1..NumRecords |-> Catalogue[c[i]]] : c \in Collections }
  /\ geocodeCache = EmptyMap
  /\ req = [s \in Slots |-> Idle]
  /\ log = [s \in Slots |-> <<>>]
  /\ lookups = [a \in Addresses |-> 0]
  /\ lookupsEver = [a \in Addresses |-> 0]
  /\ started = 0
  /\ restarts = 0
  /\ PageIdle

\* -------------------------------------------------------------- GET handler
\* LoopTop with one of its conditions changed:
\*   "nocache"   the cache is not consulted before fetch
\*   "nostored"  the stored coordinates do not prevent a resolution
\*   "noaddress" an empty address does not prevent a resolution
\*   "hitnowrite" a cache hit is not written back to the document
\*   "needboth"  a resolution needs both stored coordinates to be missing
LoopTopVariant(r, cache, v) ==
  IF r.i > Len(r.snapshot)
  THEN [r EXCEPT !.pc = "returned", !.status = 200]
  ELSE LET rawData == r.snapshot[r.i]
           address == AddressOf(rawData)
           latitude == toNumber(rawData.latitude)
           longitude == toNumber(rawData.longitude)
       IN  IF (\/ v = "nostored"
               \/ v # "needboth" /\ (latitude = Null \/ longitude = Null)
               \/ latitude = Null /\ longitude = Null)
              /\ (v = "noaddress" \/ address # <<>>)
           THEN IF v # "nocache" /\ address \in DOMAIN cache
                THEN [r EXCEPT !.pc = IF v = "hitnowrite" THEN "products"
                                      ELSE "updateDoc",
                               !.address = address,
                               !.geocoded = cache[address],
                               !.latitude = cache[address].latitude,
                               !.longitude = cache[address].longitude]
                ELSE [r EXCEPT !.pc = "fetch", !.address = address,
                               !.geocoded = NoCoordinates,
                               !.latitude = latitude, !.longitude = longitude]
           ELSE [r EXCEPT !.pc = "products", !.address = address,
                          !.geocoded = NoCoordinates,
                          !.latitude = latitude, !.longitude = longitude]

LoopTopNoCacheCheck(r, cache) == LoopTopVariant(r, cache, "nocache")
LoopTopIgnoresStored(r, cache) == LoopTopVariant(r, cache, "nostored")
LoopTopNoAddressGuard(r, cache) == LoopTopVariant(r, cache, "noaddress")
LoopTopHitSkipsWrite(r, cache) == LoopTopVariant(r, cache, "hitnowrite")
LoopTopNeedsBothMissing(r, cache) == LoopTopVariant(r, cache, "needboth")

\* The synchronous run of GET from the top of the for loop at document r.i
\* up to its next await (or its return), with the cache as it is now:
\*   pc "fetch"     - geocodeAddress missed the cache and awaits fetch
\*   pc "updateDoc" - geocodeAddress hit the cache; GET awaits updateDoc
\*   pc "products"  - no resolution; GET awaits the products getDocs
\*   pc "returned"  - the loop is over; NextResponse.json({ stores })
LoopTop(r, cache) ==
  IF r.i > Len(r.snapshot)
  THEN [r EXCEPT !.pc = "returned", !.status = 200]
  ELSE LET rawData == r.snapshot[r.i]
           address == AddressOf(rawData)
           latitude == toNumber(rawData.latitude)
           longitude == toNumber(rawData.longitude)
       IN  IF (latitude = Null \/ longitude = Null) /\ address # <<>>
           THEN IF address \in DOMAIN cache
                THEN [r EXCEPT !.pc = "updateDoc", !.address = address,
                               !.geocoded = cache[address],
                               !.latitude = cache[address].latitude,
                               !.longitude = cache[address].longitude]
                ELSE [r EXCEPT !.pc = "fetch", !.address = address,
                               !.geocoded = NoCoordinates,
                               !.latitude = latitude, !.longitude = longitude]
           ELSE [r EXCEPT !.pc = "products", !.address = address,
                          !.geocoded = NoCoordinates,
                          !.latitude = latitude, !.longitude = longitude]

\* slot s continues at the top of the loop from the slot state r
Advance(s, r) ==
  LET n == LoopTop(r, geocodeCache)
      entry == [LogEntry(n.i, n.address) EXCEPT
                  !.hit = (n.geocoded # NoCoordinates),
                  !.geocoded = n.geocoded,
                  !.fetches = IF n.pc = "fetch" THEN 1 ELSE 0,
                  !.writes = IF n.pc = "updateDoc" THEN 1 ELSE 0]
  IN  /\ req' = [req EXCEPT ![s] = n]
      /\ log' = [log EXCEPT ![s] = IF n.pc = "returned" THEN @
                                   ELSE Append(@, entry)]
      /\ lookups' = IF n.pc = "fetch"
                    THEN [lookups EXCEPT ![n.address] = @ + 1] ELSE lookups
      /\ lookupsEver' = IF n.pc = "fetch"
                        THEN [lookupsEver EXCEPT ![n.address] = @ + 1]
                        ELSE lookupsEver

\* Failed where the stores pushed so far are answered as a success
FailedPartial(r) == [r EXCEPT !.pc = "returned", !.status = 200]

\* the catch block of GET: the 500 error payload, no stores list
Failed(r) == [r EXCEPT !.pc = "returned", !.status = 500, !.stores = <<>>]

\* a request arrives: GET is invoked and awaits getDocs(collection 'stores');
\* it runs in the first slot that is free
GET(s) ==
  /\ req[s].pc \in {"idle", "returned"}
  /\ \A t \in DOMAIN req : t < s => req[t].pc \notin {"idle", "returned"}
  /\ started < MaxRequests
  /\ started' = started + 1
  /\ req' = [req EXCEPT ![s] = [Idle EXCEPT !.pc = "getDocs"]]
  /\ log' = [log EXCEPT ![s] = <<>>]
  /\ UNCHANGED <<db, geocodeCache, lookups, lookupsEver, restarts, pageVars>>

\* getDocs(collection 'stores') resolves: the loop starts on the snapshot
GetDocsResolved(s) ==
  /\ req[s].pc = "getDocs"
  /\ Advance(s, [req[s] EXCEPT !.snapshot = db, !.i = 1])
  /\ UNCHANGED <<db, geocodeCache, started, restarts, pageVars>>

\* getDocs(collection 'stores') rejects
GetDocsRejected(s) ==
  /\ req[s].pc = "getDocs"
  /\ req' = [req EXCEPT ![s] = Failed(@)]
  /\ UNCHANGED <<db, geocodeCache, log, lookups, lookupsEver,
                 started, restarts, pageVars>>

\* FetchSettled with one of its outcomes changed:
\*   "negcache" a failed lookup is entered in the cache
\*   "retry"    a failed lookup is sent again
\*   "noawait"  after a successful lookup updateDoc is called, not awaited
FetchSettledVariant(s, response, v) ==
  /\ req[s].pc = "fetch"
  /\ LET geocoded == Geocoded(response)
     IN  IF geocoded # NoCoordinates
         THEN /\ geocodeCache' = MapSet(geocodeCache, req[s].address,
                                         geocoded)
              /\ req' = [req EXCEPT ![s].pc = IF v = "noawait" THEN "products"
                                             ELSE "updateDoc",
                                    ![s].geocoded = geocoded,
                                    ![s].latitude = geocoded.latitude,
                                    ![s].longitude = geocoded.longitude]
              /\ log' = [log EXCEPT ![s][Len(log[s])].writes = @ + 1,
                                    ![s][Len(log[s])].geocoded = geocoded]
              /\ UNCHANGED <<lookups, lookupsEver>>
         ELSE /\ geocodeCache' = IF v = "negcache"
                                 THEN MapSet(geocodeCache, req[s].address,
                                             NoCoordinates)
                                 ELSE geocodeCache
              /\ IF v = "retry" /\ log[s][Len(log[s])].fetches < 2
                 THEN /\ req' = req
                      /\ log' = [log EXCEPT ![s][Len(log[s])].fetches = @ + 1]
                      /\ lookups' = [lookups EXCEPT ![req[s].address] = @ + 1]
                      /\ lookupsEver' =
                           [lookupsEver EXCEPT ![req[s].address] = @ + 1]
                 ELSE /\ req' = [req EXCEPT ![s].pc = "products"]
                      /\ log' = [log EXCEPT
                                   ![s][Len(log[s])].fetchFailed = TRUE]
                      /\ UNCHANGED <<lookups, lookupsEver>>
  /\ UNCHANGED <<db, started, restarts, pageVars>>

FetchSettledNegativeCache(s, response) ==
  FetchSettledVariant(s, response, "negcache")
FetchSettledRetry(s, response) == FetchSettledVariant(s, response, "retry")
FetchSettledNoAwait(s, response) ==
  FetchSettledVariant(s, response, "noawait")

\* the fetch of geocodeAddress settles with response: geocodeAddress
\* finishes; on a result GET takes the coordinates and awaits updateDoc,
\* otherwise it goes on to the products getDocs
FetchSettled(s, response) ==
  /\ req[s].pc = "fetch"
  /\ LET geocoded == Geocoded(response)
     IN  IF geocoded # NoCoordinates
         THEN /\ geocodeCache' = MapSet(geocodeCache, req[s].address, geocoded)
              /\ req' = [req EXCEPT ![s].pc = "updateDoc",
                                    ![s].geocoded = geocoded,
                                    ![s].latitude = geocoded.latitude,
                                    ![s].longitude = geocoded.longitude]
              /\ log' = [log EXCEPT ![s][Len(log[s])].writes = @ + 1,
                                    ![s][Len(log[s])].geocoded = geocoded]
         ELSE /\ geocodeCache' = geocodeCache
              /\ req' = [req EXCEPT ![s].pc = "products"]
              /\ log' = [log EXCEPT ![s][Len(log[s])].fetchFailed = TRUE]
  /\ UNCHANGED <<db, lookups, lookupsEver, started, restarts, pageVars>>

\* the document of id as updateDoc leaves it
Updated(document, latitude, longitude) ==
  [document EXCEPT !.latitude = latitude, !.longitude = longitude,
                   !.geocodedAt = ServerTimestamp]

\* updateDoc resolves: the coordinates are on the document
UpdateDocResolved(s) ==
  /\ req[s].pc = "updateDoc"
  /\ db' = [db EXCEPT ![req[s].i] =
              Updated(@, req[s].latitude, req[s].longitude)]
  /\ req' = [req EXCEPT ![s].pc = "products"]
  /\ log' = [log EXCEPT ![s][Len(log[s])].written = TRUE]
  /\ UNCHANGED <<geocodeCache, lookups, lookupsEver, started,
                 restarts, pageVars>>

\* UpdateDocRejected where the rejection reaches the outer catch (500)
UpdateDocRejectedAborts(s) ==
  /\ req[s].pc = "updateDoc"
  /\ req' = [req EXCEPT ![s] = Failed(@)]
  /\ log' = [log EXCEPT ![s][Len(log[s])].writeFailed = TRUE]
  /\ UNCHANGED <<db, geocodeCache, lookups, lookupsEver, started,
                 restarts, pageVars>>

\* UpdateDocRejected where the rejection discards the coordinates
UpdateDocRejectedDropsCoordinates(s) ==
  /\ req[s].pc = "updateDoc"
  /\ req' = [req EXCEPT ![s].pc = "products", ![s].latitude = Null,
                        ![s].longitude = Null]
  /\ log' = [log EXCEPT ![s][Len(log[s])].writeFailed = TRUE]
  /\ UNCHANGED <<db, geocodeCache, lookups, lookupsEver, started,
                 restarts, pageVars>>

\* updateDoc rejects: the inner catch logs a warning and GET goes on
UpdateDocRejected(s) ==
  /\ req[s].pc = "updateDoc"
  /\ req' = [req EXCEPT ![s].pc = "products"]
  /\ log' = [log EXCEPT ![s][Len(log[s])].writeFailed = TRUE]
  /\ UNCHANGED <<db, geocodeCache, lookups, lookupsEver, started,
                 restarts, pageVars>>

\* the products getDocs resolves: the record is pushed, the loop goes on
ProductsResolved(s) ==
  /\ req[s].pc = "products"
  /\ Advance(s, [req[s] EXCEPT
                   !.stores = Append(@, StorePayload(req[s].i, req[s].latitude,
                                                     req[s].longitude)),
                   !.i = @ + 1])
  /\ UNCHANGED <<db, geocodeCache, started, restarts, pageVars>>

\* ProductsRejected where the failure also empties the cache
ProductsRejectedRollsBack(s) ==
  /\ req[s].pc = "products"
  /\ req' = [req EXCEPT ![s] = Failed(@)]
  /\ geocodeCache' = EmptyMap
  /\ UNCHANGED <<db, log, lookups, lookupsEver, started, restarts, pageVars>>

\* the products getDocs rejects: the outer catch answers 500
ProductsRejected(s) ==
  /\ req[s].pc = "products"
  /\ req' = [req EXCEPT ![s] = Failed(@)]
  /\ UNCHANGED <<db, geocodeCache, log, lookups, lookupsEver,
                 started, restarts, pageVars>>

\* The process restarts: the module is loaded again, so the cache is empty
\* and every invocation in flight is gone; the collection is kept.  An
\* updateDoc in flight may or may not have reached the record store.
Restart ==
  /\ restarts < MaxRestarts
  /\ restarts' = restarts + 1
  /\ geocodeCache' = EmptyMap
  /\ \E landed \in SUBSET { s \in DOMAIN req : req[s].pc = "updateDoc" } :
       db' = [id \in DOMAIN db |->
                IF \E s \in landed : req[s].i = id
                THEN LET s == CHOOSE t \in landed : req[t].i = id
                     IN  Updated(db[id], req[s].latitude, req[s].longitude)
                ELSE db[id]]
  /\ req' = [s \in DOMAIN req |-> Idle]
  /\ log' = [s \in DOMAIN req |-> <<>>]
  /\ lookups' = [a \in Addresses |-> 0]
  /\ UNCHANGED <<lookupsEver, started, pageVars>>

Next ==
  \/ \E s \in Slots : GET(s)
  \/ \E s \in Slots : GetDocsResolved(s)
  \/ \E s \in Slots : GetDocsRejected(s)
  \/ \E s \in Slots, response \in Responses : FetchSettled(s, response)
  \/ \E s \in Slots : UpdateDocResolved(s)
  \/ \E s \in Slots : UpdateDocRejected(s)
  \/ \E s \in Slots : ProductsResolved(s)
  \/ \E s \in Slots : ProductsRejected(s)
  \/ Restart

Spec == Init /\ [][Next]_vars

TypeOK ==
  /\ DOMAIN geocodeCache \subseteq Addresses
  /\ \A s \in Slots :
       req[s].pc \in {"idle", "getDocs", "fetch", "updateDoc", "products",
                      "returned"}

\* ------------------------------------------------------------- properties
\* the (slot, position) pairs of the records the invocations have reached
Entries == { e \in Slots \X (1..NumRecords) : e[2] <= Len(log[e[1]]) }

\* the document, as read by the invocation of slot s, of its k-th record
RawData(s, k) == req[s].snapshot[log[s][k].id]

\* the element of the payload of slot s for its k-th record has been pushed
Pushed(s, k) == k <= Len(req[s].stores)

LacksCoordinates(rawData) ==
  toNumber(rawData.latitude) = Null \/ toNumber(rawData.longitude) = Null

\* the steps of slot s
LookupFails(s) == req[s].pc = "fetch" /\ req'[s].pc = "products"
LookupSucceeds(s) == req[s].pc = "fetch" /\ req'[s].pc = "updateDoc"
WriteFails(s) ==
  /\ req[s].pc = "updateDoc"
  /\ Len(log'[s]) = Len(log[s])
  /\ Len(log[s]) > 0
  /\ log'[s][Len(log[s])].writeFailed
WriteSucceeds(s) ==
  /\ req[s].pc = "updateDoc"
  /\ req'[s].pc = "products"
  /\ ~log'[s][Len(log[s])].writeFailed
BeginsRecord(s) == Len(log'[s]) = Len(log[s]) + 1

\* C1 (as stated): in one process lifetime the external service is invoked
\* at most once for every address.
C1_AtMostOneLookupPerAddress == \A a \in Addresses : lookups[a] <= 1

\* C1 (amended): once the in-process cache holds address A, no step of the
\* process sends a request for A to the external service; calls for A are
\* served from the cache.
C1_CachedAddressNotLookedUp ==
  [][\A a \in Addresses :
       a \in DOMAIN geocodeCache => lookups'[a] <= lookups[a]]_vars

\* a second call for an address was a cache hit after exactly one request
C1_Witness ==
  \E e \in Entries :
    /\ log[e[1]][e[2]].hit
    /\ lookups[log[e[1]][e[2]].address] = 1

\* C2: a failed lookup yields no coordinates and leaves the cache as it
\* was, and a resolution of an address the cache does not hold sends a new
\* request to the external service (no negative caching).
C2_FailedLookupNotCached ==
  [][\A s \in Slots :
       /\ LookupFails(s) =>
            /\ geocodeCache' = geocodeCache
            /\ log'[s][Len(log[s])].geocoded = NoCoordinates
       /\ (/\ BeginsRecord(s)
           /\ LacksCoordinates(req'[s].snapshot[req'[s].i])
           /\ req'[s].address # <<>>
           /\ req'[s].address \notin DOMAIN geocodeCache)
          => lookups'[req'[s].address] = lookups[req'[s].address] + 1]_vars

\* after a failed lookup for an address the next record with that address
\* was looked up again
C2_Witness ==
  \E s \in Slots :
    /\ Len(log[s]) = 2
    /\ log[s][1].fetchFailed
    /\ log[s][2].address = log[s][1].address
    /\ log[s][2].fetches = 1
    /\ lookups[log[s][1].address] = 2

\* C3: a record read with finite numeric latitude and longitude causes no
\* request to the external service and no write-back, and its payload
\* element carries the stored coordinates unchanged.
C3_StoredCoordinatesAuthoritative ==
  \A e \in Entries :
    LET s == e[1]
        k == e[2]
        rawData == RawData(s, k)
    IN  (rawData.latitude.t = "number" /\ IsFinite(rawData.latitude)
         /\ rawData.longitude.t = "number" /\ IsFinite(rawData.longitude))
        => /\ log[s][k].fetches = 0
           /\ log[s][k].writes = 0
           /\ ~log[s][k].hit
           /\ Pushed(s, k) =>
                /\ req[s].stores[k].latitude = rawData.latitude
                /\ req[s].stores[k].longitude = rawData.longitude

\* a listing was returned with a located record in it
C3_Witness ==
  \E e \in Entries :
    /\ req[e[1]].status = 200
    /\ RawData(e[1], e[2]).latitude = Num(1)
    /\ RawData(e[1], e[2]).longitude = Num(2)
    /\ req[e[1]].stores[e[2]].latitude = Num(1)
    /\ log[e[1]][e[2]].address # <<>>

\* C4 (as stated): over all batches and restarts the external service is
\* invoked at most once for every address.
C4_AtMostOneLookupEver == \A a \in Addresses : lookupsEver[a] <= 1

\* C4 (amended): over all batches and restarts, no request is sent to the
\* external service for a record on which valid coordinates are persisted.
C4_PersistedRecordNotLookedUp ==
  [][\A s \in Slots :
       (req'[s].pc = "fetch" /\ BeginsRecord(s))
       => LacksCoordinates(db[req'[s].i])]_vars

\* after a restart a record with written-back coordinates was processed
\* without a request: its address was looked up once ever
C4_Witness ==
  /\ restarts = 1
  /\ \E e \in Entries :
       /\ RawData(e[1], e[2]).geocodedAt = ServerTimestamp
       /\ log[e[1]][e[2]].fetches = 0
       /\ ~log[e[1]][e[2]].hit
       /\ lookupsEver[log[e[1]][e[2]].address] = 1

\* C5: a failed write-back is not fatal.  State part: no record is written
\* more than once in a batch; a returned listing holds every record, and a
\* record whose write-back failed carries its resolved coordinates.
C5_Payload ==
  /\ \A e \in Entries : log[e[1]][e[2]].writes <= 1
  /\ \A s \in Slots :
       req[s].status = 200 =>
         /\ Len(req[s].stores) = Len(req[s].snapshot)
         /\ \A k \in 1..Len(log[s]) :
              log[s][k].writeFailed =>
                /\ req[s].stores[k].id = log[s][k].id
                /\ req[s].stores[k].latitude # Null
                /\ req[s].stores[k].longitude # Null
                /\ req[s].stores[k].latitude = log[s][k].geocoded.latitude
                /\ req[s].stores[k].longitude = log[s][k].geocoded.longitude

\* Step part: the step of the failure keeps the coordinates, sends nothing
\* again and continues the batch with the products read of the same record.
C5_Step ==
  \A s \in Slots :
    WriteFails(s) =>
      /\ req'[s].pc = "products"
      /\ req'[s].status = 0
      /\ req'[s].latitude = req[s].latitude
      /\ req'[s].longitude = req[s].longitude
      /\ log'[s][Len(log[s])].writes = log[s][Len(log[s])].writes
      /\ db' = db

C5_WriteFailureNotFatal == []C5_Payload /\ [][C5_Step]_vars

\* a listing was returned after the write-back of its first record failed
C5_Witness ==
  \E s \in Slots :
    /\ req[s].status = 200
    /\ Len(req[s].stores) = NumRecords
    /\ NumRecords > 1
    /\ log[s][1].writeFailed
    /\ req[s].stores[1].latitude # Null

\* C6 (as stated): when the write-back of the resolved coordinates fails,
\* the record proceeds without coordinates for the current call.
C6_WriteFailureYieldsNull ==
  \A e \in Entries :
    (log[e[1]][e[2]].writeFailed /\ Pushed(e[1], e[2]))
    => /\ req[e[1]].stores[e[2]].latitude = Null
       /\ req[e[1]].stores[e[2]].longitude = Null

\* C6 (amended): when the write-back of the resolved coordinates fails, the
\* resolution still yields them: the record is emitted with the pair that
\* geocodeAddress returned for its address in the current call.
C6_WriteFailureKeepsCoordinates ==
  \A e \in Entries :
    (log[e[1]][e[2]].writeFailed /\ Pushed(e[1], e[2]))
    => /\ log[e[1]][e[2]].geocoded # NoCoordinates
       /\ IsFinite(req[e[1]].stores[e[2]].latitude)
       /\ IsFinite(req[e[1]].stores[e[2]].longitude)
       /\ Coordinates(req[e[1]].stores[e[2]].latitude,
                      req[e[1]].stores[e[2]].longitude)
          = log[e[1]][e[2]].geocoded

\* a record was pushed with coordinates the record store did not take
C6_Witness ==
  \E e \in Entries :
    /\ log[e[1]][e[2]].writeFailed
    /\ Pushed(e[1], e[2])
    /\ req[e[1]].stores[e[2]].latitude = Num(5)
    /\ LacksCoordinates(db[log[e[1]][e[2]].id])

\* C7 (as stated), the part that fails: after a failed lookup the record is
\* emitted with null latitude and null longitude.
C7_FailedLookupEmitsNull ==
  \A e \in Entries :
    (log[e[1]][e[2]].fetchFailed /\ Pushed(e[1], e[2]))
    => /\ req[e[1]].stores[e[2]].latitude = Null
       /\ req[e[1]].stores[e[2]].longitude = Null

\* C7 (amended).  State part: a resolution that misses the cache sends
\* exactly one request; after a failed lookup nothing is written and the
\* record is emitted with what toNumber made of its stored values, null for
\* each missing or non-numeric one (so at least one is null).
C7_Payload ==
  \A e \in Entries :
    LET s == e[1]
        k == e[2]
        rawData == RawData(s, k)
    IN  /\ log[s][k].fetches <= 1
        /\ (LacksCoordinates(rawData) /\ log[s][k].address # <<>>
            /\ ~log[s][k].hit) => log[s][k].fetches = 1
        /\ log[s][k].fetchFailed =>
             /\ log[s][k].fetches = 1
             /\ log[s][k].writes = 0
             /\ log[s][k].geocoded = NoCoordinates
             /\ Pushed(s, k) =>
                  /\ req[s].stores[k].latitude = toNumber(rawData.latitude)
                  /\ req[s].stores[k].longitude = toNumber(rawData.longitude)
                  /\ (req[s].stores[k].latitude = Null
                      \/ req[s].stores[k].longitude = Null)

\* Step part: the step of the failure sends no request, leaves the cache
\* and the record store as they were and goes on to the products read.
C7_Step ==
  \A s \in Slots :
    LookupFails(s) =>
      /\ lookups' = lookups
      /\ lookupsEver' = lookupsEver
      /\ geocodeCache' = geocodeCache
      /\ db' = db
      /\ req'[s].latitude = req[s].latitude
      /\ req'[s].longitude = req[s].longitude

C7_FailedLookupNotRetried == []C7_Payload /\ [][C7_Step]_vars

\* a record with one stored coordinate was emitted after a failed lookup
C7_Witness ==
  \E e \in Entries :
    /\ log[e[1]][e[2]].fetchFailed
    /\ Pushed(e[1], e[2])
    /\ req[e[1]].stores[e[2]].latitude = Num(1)
    /\ req[e[1]].stores[e[2]].longitude = Null

\* the pair the first candidate of the successful response of Responses
\* parses to
ParsedPairs == { Coordinates(Num(5), Num(0 - 7)) }

\* C8: after a successful lookup for the address of a record without
\* coordinates the cache maps the address to the pair parsed from the first
\* candidate, one write of the pair is issued onto the record, which leaves
\* latitude, longitude and the resolution timestamp on it, and the payload
\* element of the record carries the same pair.
C8_Payload ==
  \A e \in Entries :
    LET s == e[1]
        k == e[2]
    IN  (log[s][k].fetches = 1 /\ log[s][k].geocoded # NoCoordinates)
        => /\ log[s][k].geocoded \in ParsedPairs
           /\ log[s][k].writes = 1
           /\ LacksCoordinates(RawData(s, k))
           /\ Pushed(s, k) =>
                Coordinates(req[s].stores[k].latitude,
                            req[s].stores[k].longitude) = log[s][k].geocoded

C8_Step ==
  \A s \in Slots :
    /\ LookupSucceeds(s) =>
         /\ req[s].address \in DOMAIN geocodeCache'
         /\ geocodeCache'[req[s].address] = log'[s][Len(log[s])].geocoded
         /\ geocodeCache'[req[s].address]
            = Coordinates(req'[s].latitude, req'[s].longitude)
         /\ log'[s][Len(log[s])].writes = 1
    /\ WriteSucceeds(s) =>
         /\ db'[req[s].i].latitude = req[s].latitude
         /\ db'[req[s].i].longitude = req[s].longitude
         /\ db'[req[s].i].geocodedAt = ServerTimestamp
         /\ \A id \in DOMAIN db : id # req[s].i => db'[id] = db[id]

C8_SuccessfulLookup == []C8_Payload /\ [][C8_Step]_vars

\* a looked-up record was returned with the parsed pair, which is also in
\* the cache and on the document
C8_Witness ==
  \E e \in Entries :
    LET s == e[1]
        k == e[2]
    IN  /\ req[s].status = 200
        /\ log[s][k].fetches = 1
        /\ log[s][k].geocoded = Coordinates(Num(5), Num(0 - 7))
        /\ req[s].stores[k].latitude = Num(5)
        /\ req[s].stores[k].longitude = Num(0 - 7)
        /\ log[s][k].address \in DOMAIN geocodeCache
        /\ geocodeCache[log[s][k].address] = log[s][k].geocoded
        /\ db[log[s][k].id].latitude = Num(5)
        /\ db[log[s][k].id].geocodedAt = ServerTimestamp

\* every address field is absent, not a string, empty or whitespace
BlankAddress(rawData) ==
  \A v \in {rawData.addressLine1, rawData.city, rawData.region,
            rawData.country} :
    v.t # "string" \/ \A j \in 1..Len(v.s) : v.s[j] = " "

\* C9: for a record whose address fields are all empty or whitespace no
\* result of the cache is used, no request is sent and nothing is written;
\* the record goes on to its products read (no error) and is emitted with
\* what its stored values give.
C9_EmptyAddressNotResolved ==
  \A e \in Entries :
    LET s == e[1]
        k == e[2]
        rawData == RawData(s, k)
    IN  BlankAddress(rawData)
        => /\ log[s][k].address = <<>>
           /\ log[s][k].fetches = 0
           /\ log[s][k].writes = 0
           /\ ~log[s][k].hit
           /\ log[s][k].geocoded = NoCoordinates
           /\ (k = Len(log[s]) /\ req[s].pc # "returned")
              => req[s].pc = "products"
           /\ Pushed(s, k) =>
                /\ req[s].stores[k].latitude = toNumber(rawData.latitude)
                /\ req[s].stores[k].longitude = toNumber(rawData.longitude)

\* a listing was returned with a record without address and coordinates
C9_Witness ==
  \E e \in Entries :
    /\ req[e[1]].status = 200
    /\ BlankAddress(RawData(e[1], e[2]))
    /\ req[e[1]].stores[e[2]].latitude = Null
    /\ req[e[1]].stores[e[2]].longitude = Null

\* C10 (as stated): a resolution that hits the cache performs no I/O:
\* neither a request to the external service nor a record-store write.
C10_CacheHitNoIO ==
  \A e \in Entries :
    log[e[1]][e[2]].hit
    => log[e[1]][e[2]].fetches = 0 /\ log[e[1]][e[2]].writes = 0

\* C10 (amended).  State part: a resolution that hits the cache sends no
\* request to the external service; GET then issues one write of the cached
\* pair onto the record.
C10_Payload ==
  \A e \in Entries :
    log[e[1]][e[2]].hit
    => /\ log[e[1]][e[2]].fetches = 0
       /\ ~log[e[1]][e[2]].fetchFailed
       /\ log[e[1]][e[2]].writes = 1
       /\ log[e[1]][e[2]].geocoded # NoCoordinates

\* Step part: the step of the hit returns the pair the cache holds and
\* leaves the cache and the request counts as they were.
C10_Step ==
  \A s \in Slots :
    (BeginsRecord(s) /\ log'[s][Len(log'[s])].hit)
    => /\ lookups' = lookups
       /\ lookupsEver' = lookupsEver
       /\ geocodeCache' = geocodeCache
       /\ req'[s].address \in DOMAIN geocodeCache
       /\ log'[s][Len(log'[s])].geocoded = geocodeCache[req'[s].address]
       /\ req'[s].pc = "updateDoc"

C10_CacheHitNoLookup == []C10_Payload /\ [][C10_Step]_vars

\* a cache hit was written back to its record
C10_Witness ==
  \E e \in Entries :
    /\ log[e[1]][e[2]].hit
    /\ req[e[1]].pc = "products"
    /\ e[2] = Len(log[e[1]])
    /\ ~log[e[1]][e[2]].writeFailed
    /\ db[log[e[1]][e[2]].id].geocodedAt = ServerTimestamp
    /\ db[log[e[1]][e[2]].id].latitude = log[e[1]][e[2]].geocoded.latitude

\* ------------------------------------------------- overlapping invocations
\* A second specification of the endpoint: one more invocation than
\* MaxInFlight may be in flight, so that two invocations overlap, and the
\* external service may also answer with another pair, one whose latitude is
\* outside [-90, 90].
OverlapSlots == 1..(MaxInFlight + 1)

OverlapResponses ==
  Responses \cup
    { [kind |-> "http", ok |-> TRUE,
       results |-> <<Candidate(Str(<<"9", "5">>), Str(<<"8">>))>>] }

InitOverlap ==
  /\ db \in { [i \in 1..NumRecords |-> Catalogue[c[i]]] : c \in Collections }
  /\ geocodeCache = EmptyMap
  /\ req = [s \in OverlapSlots |-> Idle]
  /\ log = [s \in OverlapSlots |-> <<>>]
  /\ lookups = [a \in Addresses |-> 0]
  /\ lookupsEver = [a \in Addresses |-> 0]
  /\ started = 0
  /\ restarts = 0
  /\ PageIdle

NextOverlap ==
  \/ \E s \in OverlapSlots : GET(s)
  \/ \E s \in OverlapSlots : GetDocsResolved(s)
  \/ \E s \in OverlapSlots : GetDocsRejected(s)
  \/ \E s \in OverlapSlots, response \in OverlapResponses :
       FetchSettled(s, response)
  \/ \E s \in OverlapSlots : UpdateDocResolved(s)
  \/ \E s \in OverlapSlots : UpdateDocRejected(s)
  \/ \E s \in OverlapSlots : ProductsResolved(s)
  \/ \E s \in OverlapSlots : ProductsRejected(s)
  \/ Restart

SpecOverlap == InitOverlap /\ [][NextOverlap]_vars

\* C11: once the cache holds a result for an address, no step of the same
\* process lifetime removes the entry or changes its pair.
C11_CacheEntryImmutable ==
  [][restarts' = restarts =>
       \A a \in DOMAIN geocodeCache :
         /\ a \in DOMAIN geocodeCache'
         /\ geocodeCache'[a] = geocodeCache[a]]_vars

InRange(coordinates) ==
  /\ IsFinite(coordinates.latitude)
  /\ IsFinite(coordinates.longitude)
  /\ coordinates.latitude.n \in (0 - 90)..90
  /\ coordinates.longitude.n \in (0 - 180)..180

\* C12: every pair held in the cache, written back to a record or returned
\* by a resolution is finite, with latitude in [-90, 90] and longitude in
\* [-180, 180].
C12_ResultsInRange ==
  /\ \A a \in DOMAIN geocodeCache : InRange(geocodeCache[a])
  /\ \A id \in DOMAIN db :
       db[id].geocodedAt = ServerTimestamp
       => InRange(Coordinates(db[id].latitude, db[id].longitude))
  /\ \A s \in DOMAIN req :
       /\ req[s].geocoded # NoCoordinates => InRange(req[s].geocoded)
       /\ \A k \in 1..Len(log[s]) :
            log[s][k].geocoded # NoCoordinates => InRange(log[s][k].geocoded)

\* C14: an invocation ends with exactly one of two payloads: status 200
\* with a stores list that holds every record of the collection, or status
\* 500 with the error and no stores list.  State part.
C14_Payload ==
  \A s \in DOMAIN req :
    /\ req[s].pc = "returned" <=> req[s].status \in {200, 500}
    /\ req[s].pc # "returned" => req[s].status = 0
    /\ req[s].status = 200 =>
         /\ Len(req[s].snapshot) = NumRecords
         /\ Len(req[s].stores) = Len(req[s].snapshot)
         /\ \A k \in 1..Len(req[s].stores) : req[s].stores[k].id = k
    /\ req[s].status = 500 => req[s].stores = <<>>

\* Step part: when the read of the collection fails the invocation answers
\* 500 without a stores list.
C14_Step ==
  \A s \in DOMAIN req :
    (/\ req[s].pc = "getDocs"
     /\ req'[s].pc # "getDocs"
     /\ req'[s].snapshot = <<>>
     /\ restarts' = restarts)
    => /\ req'[s].pc = "returned"
       /\ req'[s].status = 500
       /\ req'[s].stores = <<>>

C14_TwoOutcomes == []C14_Payload /\ [][C14_Step]_vars

\* a request was answered 500 because the collection could not be read,
\* after an earlier one was answered with the full list
C14_Witness ==
  /\ started = 2
  /\ \E s \in DOMAIN req :
       /\ req[s].status = 500
       /\ req[s].snapshot = <<>>
  /\ \E id \in DOMAIN db : db[id].geocodedAt = ServerTimestamp

----------------------------------------------------------------------------
\* The stores page (StoresPage.tsx): projection of coordinates onto the map
\* and clustering of the projected pins.  Numbers are exact fractions
\* [n, d] in lowest terms with d > 0.

MaxPins == 3

Abs(i) == IF i < 0 THEN 0 - i ELSE i

RECURSIVE GCD(_, _)
GCD(a, b) == IF b = 0 THEN a ELSE GCD(b, a % b)

Frac(n, d) ==
  LET g == GCD(Abs(n), Abs(d))
      sg == IF d < 0 THEN 0 - 1 ELSE 1
  IN [n |-> (sg * n) \div g, d |-> (sg * d) \div g]

Whole(i) == [n |-> i, d |-> 1]

Plus(a, b)   == Frac(a.n * b.d + b.n * a.d, a.d * b.d)
Minus(a, b)  == Frac(a.n * b.d - b.n * a.d, a.d * b.d)
Times(a, b)  == Frac(a.n * b.n, a.d * b.d)
Over(a, b)   == Frac(a.n * b.d, a.d * b.n)
Leq(a, b)    == a.n * b.d <= b.n * a.d
Less(a, b)   == a.n * b.d < b.n * a.d
MathMin(a, b) == IF Leq(a, b) THEN a ELSE b
MathMax(a, b) == IF Leq(a, b) THEN b ELSE a

\* Math.hypot(dx, dy) <= t for t >= 0, compared by squares
HypotLeq(dx, dy, t) == Leq(Plus(Times(dx, dx), Times(dy, dy)), Times(t, t))
HypotLess(dx, dy, t) == Less(Plus(Times(dx, dx), Times(dy, dy)), Times(t, t))

clamp(value) == MathMin(Whole(97), MathMax(Whole(3), value))

\* projectCoordinates without the clamp
projectCoordinatesUnclamped(latitude, longitude) ==
  [x |-> Times(Over(Plus(longitude, Whole(180)), Whole(360)), Whole(100)),
   y |-> Times(Over(Minus(Whole(90), latitude), Whole(180)), Whole(100))]

projectCoordinates(latitude, longitude) ==
  LET x == Times(Over(Plus(longitude, Whole(180)), Whole(360)), Whole(100))
      y == Times(Over(Minus(Whole(90), latitude), Whole(180)), Whole(100))
  IN [x |-> clamp(x), y |-> clamp(y)]

Latitudes  == (0 - 90)..90
Longitudes == (0 - 180)..180

\* projectCoordinates applied to the arguments of the call
ProjectReturn ==
  /\ args # NoCall
  /\ result = NoCall
  /\ result' = projectCoordinates(args.latitude, args.longitude)
  /\ UNCHANGED <<serverVars, args, pins, clusters, cursor>>

\* the server side at rest, nothing requested
ServerIdle ==
  /\ db = [id \in 1..NumRecords |-> Catalogue[id]]
  /\ geocodeCache = EmptyMap
  /\ req = [s \in Slots |-> Idle]
  /\ log = [s \in Slots |-> <<>>]
  /\ lookups = EmptyMap
  /\ lookupsEver = EmptyMap
  /\ started = 0
  /\ restarts = 0

\* a call of projectCoordinates with a latitude and a longitude in range
InitProject ==
  /\ ServerIdle
  /\ args \in { [latitude |-> Whole(latitude), longitude |-> Whole(longitude)] :
                  latitude \in Latitudes, longitude \in Longitudes }
  /\ result = NoCall
  /\ pins = <<>>
  /\ clusters = <<>>
  /\ cursor = 0

NextProject == ProjectReturn

SpecProject == InitProject /\ [][NextProject]_vars

\* C15: for every latitude in [-90, 90] and longitude in [-180, 180] the
\* projection returns x = clamp((lon + 180) / 360 * 100) and
\* y = clamp((90 - lat) / 180 * 100), clamp(v) = min(97, max(3, v)), so x and
\* y lie in [3, 97].  The expected value is written over the integers:
\* (lon + 180) / 360 * 100 = 5 (lon + 180) / 18, (90 - lat) / 180 * 100 =
\* 10 (90 - lat) / 18.
C15_Expected(value, eighteenths) ==
  /\ value.d > 0
  /\ 3 * value.d <= value.n
  /\ value.n <= 97 * value.d
  /\ eighteenths < 3 * 18 => value = Whole(3)
  /\ eighteenths > 97 * 18 => value = Whole(97)
  /\ (eighteenths >= 3 * 18 /\ eighteenths <= 97 * 18)
       => 18 * value.n = eighteenths * value.d

C15_ProjectionClamped ==
  (args # NoCall /\ result # NoCall) =>
     /\ C15_Expected(result.x, 5 * (args.longitude.n + 180))
     /\ C15_Expected(result.y, 10 * (90 - args.latitude.n))

\* the north pole on the antimeridian is projected onto the corner (97, 3)
C15_Witness ==
  /\ args = [latitude |-> Whole(90), longitude |-> Whole(180)]
  /\ result = [x |-> Whole(97), y |-> Whole(3)]

----------------------------------------------------------------------------
\* clusterPins (StoresPage.tsx): one pass over the projected pins.

Threshold == 4

\* the body of the forEach callback for one pin; v selects a variant:
\*   "code"     the callback as written
\*   "noreturn" the merge branch falls through to the push of a new cluster
\*   "stale"    the merge branch leaves the centroid as it was
\*   "strict"   the distance test is < instead of <=
\*   "swapped"  a new cluster takes x from pin.y and y from pin.x
\*   "nearest"  the pin joins the nearest cluster within the threshold
\*   "recount"  the merge weighs the old centroid as a single point
\*   "prepend"  a new cluster is put in front of the existing ones
forEachPinVariant(cl, pin, threshold, v) ==
  LET near(cluster) ==
        LET dx == Minus(cluster.x, pin.x)
            dy == Minus(cluster.y, pin.y)
        IN IF v = "strict" THEN HypotLess(dx, dy, threshold)
                           ELSE HypotLeq(dx, dy, threshold)
      found == { k \in 1..Len(cl) : near(cl[k]) }
      square(k) ==
        Plus(Times(Minus(cl[k].x, pin.x), Minus(cl[k].x, pin.x)),
             Times(Minus(cl[k].y, pin.y), Minus(cl[k].y, pin.y)))
      e == IF v = "nearest"
           THEN CHOOSE k \in found : \A j \in found : Leq(square(k), square(j))
           ELSE CHOOSE k \in found : \A j \in found : k <= j
      count == IF v = "recount" THEN 1 ELSE Len(cl[e].pins)
      mean(old, new) ==
        IF v = "stale" THEN old
        ELSE Over(Plus(Times(old, Whole(count)), new), Whole(count + 1))
      merged == [cl EXCEPT ![e] = [id   |-> cl[e].id,
                                   x    |-> mean(cl[e].x, pin.x),
                                   y    |-> mean(cl[e].y, pin.y),
                                   pins |-> Append(cl[e].pins, pin)]]
      created(c) == [id   |-> <<"cluster", Len(c), pin.store.id>>,
                     x    |-> IF v = "swapped" THEN pin.y ELSE pin.x,
                     y    |-> IF v = "swapped" THEN pin.x ELSE pin.y,
                     pins |-> <<pin>>]
      pushed(c) == IF v = "prepend" THEN <<created(c)>> \o c
                   ELSE Append(c, created(c))
  IN IF found # {}
       THEN IF v = "noreturn" THEN pushed(merged) ELSE merged
       ELSE pushed(cl)

forEachPinNoReturn(cl, pin, threshold) ==
  forEachPinVariant(cl, pin, threshold, "noreturn")
forEachPinStaleCentroid(cl, pin, threshold) ==
  forEachPinVariant(cl, pin, threshold, "stale")
forEachPinStrict(cl, pin, threshold) ==
  forEachPinVariant(cl, pin, threshold, "strict")
forEachPinSwapped(cl, pin, threshold) ==
  forEachPinVariant(cl, pin, threshold, "swapped")
forEachPinNearest(cl, pin, threshold) ==
  forEachPinVariant(cl, pin, threshold, "nearest")
forEachPinRecount(cl, pin, threshold) ==
  forEachPinVariant(cl, pin, threshold, "recount")
forEachPinPrepend(cl, pin, threshold) ==
  forEachPinVariant(cl, pin, threshold, "prepend")

forEachPin(cl, pin, threshold) == forEachPinVariant(cl, pin, threshold, "code")

\* the whole pass as a function of its input
RECURSIVE clusterPinsFrom(_, _, _)
clusterPinsFrom(cl, rest, threshold) ==
  IF rest = <<>> THEN cl
  ELSE clusterPinsFrom(forEachPin(cl, Head(rest), threshold), Tail(rest),
                       threshold)

clusterPins(input, threshold) == clusterPinsFrom(<<>>, input, threshold)

\* projected pins of six stores; stores 1 and 6 are projected onto the same
\* point
Pin(id, x, y) == [store |-> [id |-> id], x |-> Whole(x), y |-> Whole(y)]

ProjectedPins ==
  { Pin(1, 10, 10), Pin(2, 11, 11), Pin(3, 14, 10), Pin(4, 16, 10),
    Pin(5, 50, 50), Pin(6, 10, 10) }

\* the sequences of at most MaxPins pins of distinct stores
PinSequences ==
  UNION { { f \in [1..n -> ProjectedPins] :
              \A j, k \in 1..n : j # k => f[j] # f[k] } : n \in 0..MaxPins }

\* a call clusterPins(pins) with the default threshold
InitCluster ==
  /\ ServerIdle
  /\ pins \in PinSequences
  /\ args = [pins |-> pins, threshold |-> Whole(Threshold)]
  /\ clusters = <<>>
  /\ cursor = 1
  /\ result = NoCall

\* one iteration of pins.forEach
ClusterStep ==
  /\ cursor \in 1..Len(pins)
  /\ clusters' = forEachPin(clusters, pins[cursor], args.threshold)
  /\ cursor' = cursor + 1
  /\ UNCHANGED <<serverVars, args, result, pins>>

ClusterReturn ==
  /\ cursor = Len(pins) + 1
  /\ result = NoCall
  /\ result' = [clusters |-> clusters]
  /\ UNCHANGED <<serverVars, args, pins, clusters, cursor>>

NextCluster == ClusterStep \/ ClusterReturn

SpecCluster == InitCluster /\ [][NextCluster]_vars

\* the clusters returned by the pass, and the positions <<c, j>> of their
\* member lists
Returned == result.clusters

Members ==
  { m \in (1..Len(Returned)) \X (1..MaxPins + 1) :
      m[2] <= Len(Returned[m[1]].pins) }

\* C16: after a clustering pass every input point is a member of exactly one
\* cluster: no member list is empty, the member lists are pairwise disjoint,
\* and together they hold each input point once (as many members as inputs).
C16_Partition ==
  result # NoCall =>
    /\ \A c \in 1..Len(Returned) : Returned[c].pins # <<>>
    /\ \A m, n \in Members :
         Returned[m[1]].pins[m[2]] = Returned[n[1]].pins[n[2]] => m = n
    /\ \A k \in 1..Len(pins) :
         \E m \in Members : Returned[m[1]].pins[m[2]] = pins[k]
    /\ \A m \in Members :
         \E k \in 1..Len(pins) : Returned[m[1]].pins[m[2]] = pins[k]
    /\ Cardinality(Members) = Len(pins)

\* three pins clustered into a cluster of two and a cluster of one
C16_Witness ==
  /\ result # NoCall
  /\ Len(pins) = 3
  /\ Len(Returned) = 2
  /\ \E c \in 1..2 : Len(Returned[c].pins) = 2

\* C17: clustering the empty sequence returns the empty sequence; clustering
\* a one-point sequence <<p>> returns exactly one cluster whose only member
\* is p and whose centroid is p's coordinates.
C17_EmptyAndSingleton ==
  result # NoCall =>
    /\ pins = <<>> => Returned = <<>>
    /\ Len(pins) = 1 =>
         /\ Len(Returned) = 1
         /\ Returned[1].pins = <<pins[1]>>
         /\ Returned[1].x = pins[1].x
         /\ Returned[1].y = pins[1].y

\* the single pin (14, 10) was clustered
C17_Witness ==
  /\ result # NoCall
  /\ pins = <<Pin(3, 14, 10)>>
  /\ Len(Returned) = 1

\* C18: clustering (10,10), (11,11), (50,50) in that order with threshold 4
\* returns exactly two clusters: the first holds points 1 and 2 with
\* centroid (10.5, 10.5), the second holds only point 3 with centroid
\* (50, 50).
C18_ThreePoints ==
  (/\ result # NoCall
   /\ args.threshold = Whole(4)
   /\ pins = <<Pin(1, 10, 10), Pin(2, 11, 11), Pin(5, 50, 50)>>)
  => /\ Len(Returned) = 2
     /\ Returned[1].pins = <<pins[1], pins[2]>>
     /\ Returned[1].x = [n |-> 21, d |-> 2]
     /\ Returned[1].y = [n |-> 21, d |-> 2]
     /\ Returned[2].pins = <<pins[3]>>
     /\ Returned[2].x = Whole(50)
     /\ Returned[2].y = Whole(50)

C18_Witness ==
  /\ result # NoCall
  /\ pins = <<Pin(1, 10, 10), Pin(2, 11, 11), Pin(5, 50, 50)>>
  /\ Returned[1].x = [n |-> 21, d |-> 2]

\* the pins (10,10), (14,10), (16,10) in that order, and in the order that
\* takes (10,10) last
Ascending == <<Pin(1, 10, 10), Pin(3, 14, 10), Pin(4, 16, 10)>>
Rotated   == <<Pin(3, 14, 10), Pin(4, 16, 10), Pin(1, 10, 10)>>

\* the sets of stores that share a cluster
Partition(cl) ==
  { { cl[c].pins[j].store.id : j \in 1..Len(cl[c].pins) } : c \in 1..Len(cl) }

\* C19: clustering depends on the order of the input: with threshold 4 the
\* pins (10,10), (14,10), (16,10) end in one cluster in that order and in
\* two clusters when (10,10) comes last, so the two orderings of the same
\* point set give different numbers of clusters and different partitions.
C19_OrderDependent ==
  (/\ result # NoCall
   /\ args.threshold = Whole(4)
   /\ pins = Ascending)
  => /\ Len(Returned) = 1
     /\ Len(clusterPins(Rotated, args.threshold)) = 2
     /\ Partition(Returned) # Partition(clusterPins(Rotated, args.threshold))
     /\ { Rotated[k] : k \in 1..3 } = { pins[k] : k \in 1..3 }

C19_Witness ==
  /\ result # NoCall
  /\ pins = Ascending
  /\ Partition(Returned) = { {1, 3, 4} }
  /\ Partition(clusterPins(Rotated, args.threshold)) = { {3, 4}, {1} }

----------------------------------------------------------------------------
\* The address of a record as a function of its four address fields.

FieldValues ==
  { Undefined, Null, Str(<<>>), Str(<<" ">>), Str(<<"a">>), Str(<<" ", "a">>),
    Str(<<"b", " ">>), Str(<<"a", " ", "b">>) }

\* rawData of a record: the address fields drawn from FieldValues
InitNormalize ==
  /\ ServerIdle
  /\ args \in { Doc(l1, city, region, country, Undefined, Undefined) :
                  l1 \in FieldValues, city \in FieldValues,
                  region \in FieldValues, country \in FieldValues }
  /\ result = NoCall
  /\ pins = <<>>
  /\ clusters = <<>>
  /\ cursor = 0

\* the address expression at the top of the loop body of GET
NormalizeReturn ==
  /\ args # NoCall
  /\ result = NoCall
  /\ result' = [address |-> AddressOf(args)]
  /\ UNCHANGED <<serverVars, args, pins, clusters, cursor>>

NextNormalize == NormalizeReturn

SpecNormalize == InitNormalize /\ [][NextNormalize]_vars

\* a field that holds something other than whitespace
NonEmpty(value) ==
  /\ value.t = "string"
  /\ \E i \in 1..Len(value.s) : ~IsWhitespace(value.s[i])

\* the text between the first and the last character that is not whitespace
Stripped(value) ==
  LET solid == { i \in 1..Len(value.s) : ~IsWhitespace(value.s[i]) }
      first == CHOOSE i \in solid : \A j \in solid : i <= j
      last  == CHOOSE i \in solid : \A j \in solid : j <= i
  IN SubSeq(value.s, first, last)

\* an address split at its separators ", "
RECURSIVE Pieces(_, _)
Pieces(address, piece) ==
  IF address = <<>> THEN IF piece = <<>> THEN <<>> ELSE <<piece>>
  ELSE IF Len(address) >= 2 /\ SubSeq(address, 1, 2) = <<",", " ">>
       THEN <<piece>> \o Pieces(SubSeq(address, 3, Len(address)), <<>>)
       ELSE Pieces(Tail(address), Append(piece, Head(address)))

\* the same record with every string field padded with whitespace
Padded(value) ==
  IF value.t = "string" THEN Str(<<" ">> \o value.s \o <<" ", " ">>) ELSE value

Respelled(rawData) ==
  [rawData EXCEPT !.addressLine1 = Padded(@), !.city = Padded(@),
                  !.region = Padded(@), !.country = Padded(@)]

\* C20: the address is the concatenation, in the order addressLine1, city,
\* region, country, of exactly the fields that are non-empty after trimming,
\* joined by ", "; it is empty when all four are empty; and records with the
\* same non-empty address fields, however padded, get the same address.
C20_Normalize ==
  (args # NoCall /\ result # NoCall) =>
    LET fields == <<args.addressLine1, args.city, args.region, args.country>>
        kept == SelectSeq(fields, NonEmpty)
    IN /\ Pieces(result.address, <<>>) =
            [k \in 1..Len(kept) |-> Stripped(kept[k])]
       /\ (kept = <<>>) <=> (result.address = <<>>)
       /\ AddressOf(Respelled(args)) = result.address
       /\ AddressOf(args) = result.address

\* " a", blank, absent, "b " gives "a, b"
C20_Witness ==
  /\ args = Doc(Str(<<" ", "a">>), Str(<<" ">>), Undefined, Str(<<"b", " ">>),
                Undefined, Undefined)
  /\ result = [address |-> <<"a", ",", " ", "b">>]

----------------------------------------------------------------------------
\* The stores page loading the listing and placing its pins.

\* toNullableString of StoresPage.tsx: the value itself, not trimmed
pageToNullableString(value) ==
  IF value.t = "string" /\ Trim(value.s) # <<>> THEN value
  ELSE Null

\* the k-th element of the stores list answered by invocation r:
\* {id, ...rawData, latitude, longitude}
Item(r, k) ==
  LET rawData == r.snapshot[r.stores[k].id]
  IN [id           |-> r.stores[k].id,
      addressLine1 |-> rawData.addressLine1,
      city         |-> rawData.city,
      region       |-> rawData.region,
      country      |-> rawData.country,
      latitude     |-> r.stores[k].latitude,
      longitude    |-> r.stores[k].longitude]

mapStore(data, id) ==
  [id           |-> id,
   addressLine1 |-> pageToNullableString(data.addressLine1),
   city         |-> pageToNullableString(data.city),
   region       |-> pageToNullableString(data.region),
   country      |-> pageToNullableString(data.country),
   latitude     |-> toNumber(data.latitude),
   longitude    |-> toNumber(data.longitude)]

\* loadStores: payload.stores mapped through mapStore
LoadedStores(r) ==
  [k \in 1..Len(r.stores) |-> mapStore(Item(r, k), Item(r, k).id)]

formatLocation(store) ==
  Join(FilterBoolean(<<store.addressLine1, store.city, store.region,
                       store.country>>))

\* hasCoordinates that looks at the latitude only
hasCoordinatesLatitudeOnly(store) ==
  store.latitude.t = "number" /\ IsFinite(store.latitude)

hasCoordinates(store) ==
  /\ store.latitude.t = "number"
  /\ store.longitude.t = "number"
  /\ IsFinite(store.latitude)
  /\ IsFinite(store.longitude)

\* OnMap that does not look at the location
OnMapIgnoresLocation(store) == hasCoordinates(store)

\* the filter of StoreMap
OnMap(store) == formatLocation(store) # <<>> /\ hasCoordinates(store)

\* the projected pin of a store; a null coordinate counts as 0 in the
\* arithmetic of projectCoordinates
ProjectedPin(store) ==
  LET projected == projectCoordinates(Whole(store.latitude.n),
                                      Whole(store.longitude.n))
  IN [store |-> store, location |-> formatLocation(store),
      x |-> projected.x, y |-> projected.y]

\* the pins StoreMap hands to clusterPins
StoreMapPins(stores) ==
  LET shown == SelectSeq(stores, OnMap)
  IN [k \in 1..Len(shown) |-> ProjectedPin(shown[k])]

\* C13: no geocoding outcome is fatal to the listing.  State part: a list
\* answered with status 200 holds every record of the collection exactly
\* once in collection order, and a record left without a coordinate is in
\* the list the page loads but has no pin on the map.
C13_Payload ==
  \A s \in DOMAIN req :
    req[s].status = 200 =>
      LET stores == LoadedStores(req[s])
          mapPins == StoreMapPins(stores)
      IN /\ Len(req[s].stores) = NumRecords
         /\ \A k \in 1..NumRecords : req[s].stores[k].id = k
         /\ \A k \in 1..NumRecords :
              (req[s].stores[k].latitude = Null
               \/ req[s].stores[k].longitude = Null)
              => /\ stores[k].id = k
                 /\ \A j \in 1..Len(mapPins) : mapPins[j].store.id # k

\* Step part: a lookup or a write-back that settles, whichever way, leaves
\* the invocation running.
C13_Step ==
  \A s \in DOMAIN req :
    (req[s].pc \in {"fetch", "updateDoc"} /\ restarts' = restarts)
    => /\ req'[s].status = 0
       /\ req'[s].pc \in {"fetch", "updateDoc", "products"}
       /\ req'[s].stores = req[s].stores

C13_GeocodingNotFatal == []C13_Payload /\ [][C13_Step]_vars

\* a listing answered after one lookup failed and one write-back failed; it
\* holds a record without coordinates and puts another record on the map
C13_Witness ==
  \E s \in DOMAIN req :
    /\ req[s].status = 200
    /\ \E k \in 1..Len(log[s]) : log[s][k].fetchFailed
    /\ \E k \in 1..Len(log[s]) : log[s][k].writeFailed
    /\ \E k \in 1..Len(req[s].stores) : req[s].stores[k].latitude = Null
    /\ StoreMapPins(LoadedStores(req[s])) # <<>>

----------------------------------------------------------------------------
\* Ordering of the requests of one batch.

\* the lookup, the write-back of a history entry has been sent and has not
\* settled
LookupInFlight(entry) ==
  entry.fetches > 0 /\ ~entry.fetchFailed /\ entry.geocoded = NoCoordinates
WriteInFlight(entry) ==
  entry.writes > 0 /\ ~entry.writeFailed /\ ~entry.written

\* C21: within one batch the records are resolved one after the other: the
\* lookup and the write-back of a record have settled before anything is
\* sent for the next record, so a batch has at most one request in flight,
\* and it is a request of the record the batch is at.
C21_Sequential ==
  \A s \in DOMAIN req :
    /\ \A k \in 1..Len(log[s]) :
         /\ ~(LookupInFlight(log[s][k]) /\ WriteInFlight(log[s][k]))
         /\ LookupInFlight(log[s][k]) =>
              k = Len(log[s]) /\ req[s].pc = "fetch"
         /\ WriteInFlight(log[s][k]) =>
              k = Len(log[s]) /\ req[s].pc = "updateDoc"
         /\ log[s][k].id = k
    /\ req[s].pc = "fetch" => LookupInFlight(log[s][Len(log[s])])
    /\ req[s].pc = "updateDoc" => WriteInFlight(log[s][Len(log[s])])

\* the first record was looked up and written, the second one has a
\* request in flight
C21_Witness ==
  \E s \in DOMAIN req :
    /\ Len(log[s]) = 2
    /\ log[s][1].fetches = 1
    /\ log[s][1].written
    /\ WriteInFlight(log[s][2])

\* C22: when two invocations interleave at their awaits, an address that is
\* neither cached nor persisted is still requested from the external service
\* at most once; in particular no two invocations have a request for the
\* same address in flight.
C22_OneLookupWhenInterleaved ==
  \A s, t \in DOMAIN req :
    (s # t /\ req[s].pc = "fetch" /\ req[t].pc = "fetch")
    => req[s].address # req[t].address

----------------------------------------------------------------------------
\* The steps of a clustering pass.

\* cluster and pin are no farther apart than threshold: the squared
\* distance, over integers
Within(cluster, pin, threshold) ==
  LET dx == Minus(cluster.x, pin.x)
      dy == Minus(cluster.y, pin.y)
  IN (dx.n * dx.n * dy.d * dy.d + dy.n * dy.n * dx.d * dx.d)
       * threshold.d * threshold.d
     <= threshold.n * threshold.n * dx.d * dx.d * dy.d * dy.d

\* the clusters within the threshold of the pin forEach visits
Candidates ==
  { k \in 1..Len(clusters) : Within(clusters[k], pins[cursor], args.threshold) }

\* C23: each point, in input order, is merged into the first cluster in
\* creation order whose centroid is at distance <= threshold (boundary
\* included), even when a later cluster is nearer; a new singleton cluster
\* at the point's coordinates is created if and only if no cluster's
\* centroid is within the threshold.
C23_Step ==
  cursor' = cursor + 1 =>
    LET pin == pins[cursor]
    IN /\ (Candidates = {}) <=> (Len(clusters') = Len(clusters) + 1)
       /\ Candidates = {} =>
            /\ clusters'[Len(clusters')].pins = <<pin>>
            /\ clusters'[Len(clusters')].x = pin.x
            /\ clusters'[Len(clusters')].y = pin.y
            /\ \A k \in 1..Len(clusters) : clusters'[k] = clusters[k]
       /\ Candidates # {} =>
            /\ Len(clusters') = Len(clusters)
            /\ \A k \in 1..Len(clusters) :
                 IF k \in Candidates /\ \A j \in Candidates : k <= j
                 THEN clusters'[k].pins = Append(clusters[k].pins, pin)
                 ELSE clusters'[k].pins = clusters[k].pins

C23_FirstMatch == [][C23_Step]_vars

\* (14,10) lies 4 from the first cluster (10,10) and 2 from the second one
\* (16,10), and it has joined the first
C23_Witness ==
  /\ pins = <<Pin(1, 10, 10), Pin(4, 16, 10), Pin(3, 14, 10)>>
  /\ cursor = 4
  /\ Len(clusters) = 2
  /\ clusters[1].pins = <<pins[1], pins[3]>>
  /\ clusters[2].pins = <<pins[2]>>

\* the sums of the coordinates of a list of pins
RECURSIVE SumX(_)
SumX(members) ==
  IF members = <<>> THEN Whole(0)
  ELSE Plus(Head(members).x, SumX(Tail(members)))

RECURSIVE SumY(_)
SumY(members) ==
  IF members = <<>> THEN Whole(0)
  ELSE Plus(Head(members).y, SumY(Tail(members)))

\* C24: after every step of a pass each cluster's centroid is the arithmetic
\* mean of the coordinates of its current members.  State part.
C24_Mean ==
  \A k \in 1..Len(clusters) :
    /\ clusters[k].pins # <<>>
    /\ Times(clusters[k].x, Whole(Len(clusters[k].pins))) =
         SumX(clusters[k].pins)
    /\ Times(clusters[k].y, Whole(Len(clusters[k].pins))) =
         SumY(clusters[k].pins)

\* Step part: a merge sets the target's centroid to
\* (old * count + point) / (count + 1) and leaves every other cluster, its
\* centroid and its members, as it was.
C24_Step ==
  (cursor' = cursor + 1 /\ Len(clusters') = Len(clusters)) =>
    \E e \in 1..Len(clusters) :
      LET count == Len(clusters[e].pins)
          pin == pins[cursor]
      IN /\ clusters'[e].pins = Append(clusters[e].pins, pin)
         /\ clusters'[e].x =
              Over(Plus(Times(clusters[e].x, Whole(count)), pin.x),
                   Whole(count + 1))
         /\ clusters'[e].y =
              Over(Plus(Times(clusters[e].y, Whole(count)), pin.y),
                   Whole(count + 1))
         /\ \A k \in 1..Len(clusters) : k # e => clusters'[k] = clusters[k]

C24_RunningMean == []C24_Mean /\ [][C24_Step]_vars

\* three pins in one cluster whose centroid is (40/3, 10)
C24_Witness ==
  /\ pins = Ascending
  /\ cursor = 4
  /\ Len(clusters) = 1
  /\ clusters[1].x = [n |-> 40, d |-> 3]
  /\ clusters[1].y = Whole(10)

\* the position of a pin in the input of the pass
Position(pin) == CHOOSE k \in 1..Len(pins) : pins[k] = pin

\* C25: the clusters are in creation order.  State part: the first member
\* of a cluster is the pin that created it, the clusters are ordered by the
\* input position of their first members, and the members of a cluster are
\* in input order.
C25_Order ==
  /\ \A c \in 1..Len(clusters) :
       /\ clusters[c].pins # <<>>
       /\ clusters[c].id = <<"cluster", c - 1, clusters[c].pins[1].store.id>>
       /\ \A j \in 1..Len(clusters[c].pins) :
            \E k \in 1..Len(pins) : pins[k] = clusters[c].pins[j]
       /\ \A i, j \in 1..Len(clusters[c].pins) :
            i < j => Position(clusters[c].pins[i]) < Position(clusters[c].pins[j])
  /\ \A c, d \in 1..Len(clusters) :
       c < d => Position(clusters[c].pins[1]) < Position(clusters[d].pins[1])
  /\ result # NoCall => Returned = clusters

\* Step part: a later pin removes no cluster and moves none.
C25_Step ==
  /\ Len(clusters') >= Len(clusters)
  /\ \A c \in 1..Len(clusters) :
       /\ clusters'[c].id = clusters[c].id
       /\ clusters'[c].pins[1] = clusters[c].pins[1]
       /\ SubSeq(clusters'[c].pins, 1, Len(clusters[c].pins)) = clusters[c].pins

C25_CreationOrder == []C25_Order /\ [][C25_Step]_vars

\* three pins far apart returned as three clusters in input order
C25_Witness ==
  /\ result # NoCall
  /\ Len(pins) = 3
  /\ Len(Returned) = 3
  /\ \A c \in 1..3 : Returned[c].pins = <<pins[c]>>

----------------------------------------------------------------------------
\* Records that share an address, and write-backs that fail.

\* C26: when two records of one batch share their address, both lack
\* coordinates and the lookup for the first succeeds, the external service is
\* called once for the pair, the second record is served from the cache
\* with the same coordinates, and each of the two records gets its own
\* write-back.
C26_SharedAddress ==
  \A s \in DOMAIN req : \A j, k \in 1..Len(log[s]) :
    (/\ j < k
     /\ log[s][j].address = log[s][k].address
     /\ log[s][j].address # <<>>
     /\ LacksCoordinates(RawData(s, j))
     /\ LacksCoordinates(RawData(s, k))
     /\ log[s][j].fetches = 1
     /\ log[s][j].geocoded # NoCoordinates)
    => /\ log[s][k].fetches = 0
       /\ log[s][k].hit
       /\ log[s][k].geocoded = log[s][j].geocoded
       /\ log[s][j].writes = 1
       /\ log[s][k].writes = 1

\* C27: the cache is filled before the write-back is attempted, so after a
\* failed write-back for a record with address A the cache still maps A to
\* the pair resolved for the record; a later batch of the process resolves
\* the record from the cache without a request and attempts the write-back
\* again, as long as the record has no coordinates.
C27_Step ==
  \A s \in DOMAIN req :
    /\ WriteFails(s) =>
         /\ req[s].address \in DOMAIN geocodeCache'
         /\ geocodeCache'[req[s].address] = req[s].geocoded
         /\ geocodeCache'[req[s].address] =
              Coordinates(req'[s].latitude, req'[s].longitude)
    /\ (/\ BeginsRecord(s)
        /\ req'[s].address \in DOMAIN geocodeCache
        /\ req'[s].address # <<>>
        /\ LacksCoordinates(req'[s].snapshot[req'[s].i]))
       => /\ req'[s].pc = "updateDoc"
          /\ lookups' = lookups
          /\ log'[s][Len(log'[s])].writes = 1
          /\ req'[s].geocoded = geocodeCache[req'[s].address]

C27_CacheBeforeWrite == [][C27_Step]_vars

\* a document that stores exactly one valid coordinate
OneCoordinate(rawData) ==
  (toNumber(rawData.latitude) = Null) # (toNumber(rawData.longitude) = Null)

\* C28: a record with only one valid coordinate is treated as having none:
\* with a non-empty address a resolution is triggered and a success
\* overwrites both values; when the resolution fails the record is emitted
\* with its single stored value and null for the other, and it gets no pin
\* on the map.
C28_OneCoordinate ==
  \A s \in DOMAIN req : \A k \in 1..Len(log[s]) :
    (OneCoordinate(RawData(s, k)) /\ log[s][k].address # <<>>) =>
      /\ log[s][k].hit \/ log[s][k].fetches = 1
      /\ (Pushed(s, k) /\ log[s][k].geocoded # NoCoordinates) =>
           /\ req[s].stores[k].latitude = log[s][k].geocoded.latitude
           /\ req[s].stores[k].longitude = log[s][k].geocoded.longitude
           /\ req[s].stores[k].latitude # Null
           /\ req[s].stores[k].longitude # Null
      /\ (Pushed(s, k) /\ log[s][k].fetchFailed) =>
           /\ req[s].stores[k].latitude = toNumber(RawData(s, k).latitude)
           /\ req[s].stores[k].longitude = toNumber(RawData(s, k).longitude)
           /\ (req[s].stores[k].latitude = Null)
                # (req[s].stores[k].longitude = Null)
           /\ LET mapPins == StoreMapPins(LoadedStores(req[s]))
              IN \A j \in 1..Len(mapPins) :
                   mapPins[j].store.id # req[s].stores[k].id

\* a record stored with latitude 1 and no valid longitude is listed with
\* the resolved pair (5, -7)
C28_Witness ==
  \E s \in DOMAIN req : \E k \in 1..Len(log[s]) :
    /\ OneCoordinate(RawData(s, k))
    /\ RawData(s, k).latitude = Num(1)
    /\ req[s].status = 200
    /\ req[s].stores[k].latitude = Num(5)
    /\ req[s].stores[k].longitude = Num(0 - 7)

----------------------------------------------------------------------------
\* StoreMap as a function of the stores it is given.

\* elements of payload.stores: with and without an address, with and
\* without each coordinate
Items ==
  { [id |-> 0, addressLine1 |-> l1, city |-> Undefined, region |-> Null,
     country |-> Undefined, latitude |-> lat, longitude |-> lon] :
      l1 \in { Str(<<" ">>), Str(<<"a">>) },
      lat \in { Null, Num(0), Num(90) },
      lon \in { Null, Num(2) } }

\* the items as mapStore maps them
MappedItems == { mapStore(item, item.id) : item \in Items }

\* StoreMap is given a list of at most MaxPins stores as loadStores may
\* produce them; the id of a store is its position
InitStoreMap ==
  /\ ServerIdle
  /\ \E n \in 0..MaxPins : \E f \in [1..n -> MappedItems] :
       args = [stores |-> [k \in 1..n |-> [f[k] EXCEPT !.id = k]]]
  /\ result = NoCall
  /\ pins = <<>>
  /\ clusters = <<>>
  /\ cursor = 0

\* StoreMap computes its pins
StoreMapReturn ==
  /\ args # NoCall
  /\ result = NoCall
  /\ result' = [pins |-> StoreMapPins(args.stores)]
  /\ UNCHANGED <<serverVars, args, pins, clusters, cursor>>

NextStoreMap == StoreMapReturn

SpecStoreMap == InitStoreMap /\ [][NextStoreMap]_vars

\* a store has an address: one of its address fields is a non-empty string
HasAddress(store) ==
  \E field \in { store.addressLine1, store.city, store.region, store.country } :
    field.t = "string" /\ field.s # <<>>

\* C29: a record gets a pin if and only if it has both coordinates, finite,
\* and a non-empty formatted address; a record with coordinates and no
\* address gets none; every record gets at most one pin.
C29_PinIffLocated ==
  (args # NoCall /\ result # NoCall) =>
    /\ Len(result.pins) <= Len(args.stores)
    /\ \A k \in 1..Len(args.stores) :
         LET store == args.stores[k]
             own == { j \in 1..Len(result.pins) : result.pins[j].store = store }
         IN /\ Cardinality(own) <= 1
            /\ (own # {}) <=> (/\ store.latitude.t = "number"
                               /\ store.longitude.t = "number"
                               /\ HasAddress(store))
    /\ \A j \in 1..Len(result.pins) :
         \E k \in 1..Len(args.stores) : result.pins[j].store = args.stores[k]

\* of two stores with coordinates the one without an address has no pin
C29_Witness ==
  /\ result # NoCall
  /\ Len(args.stores) = 2
  /\ args.stores[1].latitude = Num(0)
  /\ args.stores[1].longitude = Num(2)
  /\ ~HasAddress(args.stores[1])
  /\ Len(result.pins) = 1
  /\ result.pins[1].store = args.stores[2]

----------------------------------------------------------------------------
\* A batch that fails at a products read.

\* C30: when the read of a store's products fails in the middle of a batch
\* the endpoint answers 500 without a stores list, and the cache entries
\* and the write-backs made for earlier records of the batch stay.  State
\* part: after the failure the records written by the batch carry
\* coordinates and the addresses it resolved are cached.
C30_Kept ==
  \A s \in DOMAIN req :
    req[s].status = 500 =>
      /\ req[s].stores = <<>>
      /\ \A k \in 1..Len(log[s]) :
           /\ log[s][k].written =>
                /\ db[log[s][k].id].geocodedAt = ServerTimestamp
                /\ ~LacksCoordinates(db[log[s][k].id])
           /\ log[s][k].geocoded # NoCoordinates =>
                log[s][k].address \in DOMAIN geocodeCache

\* Step part: the failing step changes neither the cache nor the
\* collection; only a restart removes a cache entry, no step removes stored
\* coordinates; and a request is sent only for a record that was read
\* without coordinates and whose address is not cached, so a retry sends
\* none for the records already resolved.
C30_Step ==
  /\ \A s \in DOMAIN req :
       /\ (req[s].pc = "products" /\ req'[s].status = 500) =>
            /\ req'[s].pc = "returned"
            /\ req'[s].stores = <<>>
            /\ geocodeCache' = geocodeCache
            /\ db' = db
       /\ (BeginsRecord(s) /\ req'[s].pc = "fetch") =>
            /\ req'[s].address \notin DOMAIN geocodeCache
            /\ LacksCoordinates(req'[s].snapshot[req'[s].i])
  /\ restarts' = restarts => DOMAIN geocodeCache \subseteq DOMAIN geocodeCache'
  /\ \A id \in DOMAIN db : ~LacksCoordinates(db[id]) => ~LacksCoordinates(db'[id])

C30_NoRollback == []C30_Kept /\ [][C30_Step]_vars

\* a batch failed at the products read of its second record after the
\* first record had been looked up and written
C30_Witness ==
  \E s \in DOMAIN req :
    /\ req[s].status = 500
    /\ Len(log[s]) = 2
    /\ log[s][1].fetches = 1
    /\ log[s][1].written
    /\ log[s][1].address \in DOMAIN geocodeCache
    /\ db[1].geocodedAt = ServerTimestamp

====
